---- MODULE Spec2Model ----
(***************************************************************************)
(* Model of sort_quizzes.py: the semester-folder scanner, the quiz-folder  *)
(* finder, the part locator, the PDF merger and the orchestrator main().   *)
(*                                                                         *)
(* A name is a sequence of one-character strings, a path is a sequence of  *)
(* names relative to WORKSPACE_DIR, and the filesystem is a function from  *)
(* paths to nodes.  The filesystem is case-sensitive.  The order in which  *)
(* iterdir() yields the entries of a directory is arbitrary, and stable    *)
(* for as long as the directory is not modified.                           *)
(***************************************************************************)
EXTENDS Integers, Sequences, FiniteSets, TLC

(***************************************************************************)
(* Bounds of the model.                                                    *)
(***************************************************************************)
MaxTop == 2
MaxQuizFolders == 2
MaxFiles == 3
MaxRuns == 2

(***************************************************************************)
(* Characters and strings (str.lower, \d, \w, int(), str()).               *)
(***************************************************************************)
Uppers == <<"A","B","C","D","E","F","G","H","I","J","K","L","M",
            "N","O","P","Q","R","S","T","U","V","W","X","Y","Z">>
Lowers == <<"a","b","c","d","e","f","g","h","i","j","k","l","m",
            "n","o","p","q","r","s","t","u","v","w","x","y","z">>
Digits == <<"0","1","2","3","4","5","6","7","8","9">>

UpperSet == {Uppers[i] : i \in 1..26}
LowerSet == {Lowers[i] : i \in 1..26}
DigitSet == {Digits[i] : i \in 1..10}
\* the characters that occur in the names of the model
Chars == UpperSet \cup LowerSet \cup DigitSet \cup {".", ",", "-", "_", " "}

IsDigit(c) == c \in DigitSet
IsWord(c) == c \in UpperSet \/ c \in LowerSet \/ c \in DigitSet \/ c = "_"

LowerMap ==
    [c \in Chars |->
        IF c \in UpperSet THEN Lowers[CHOOSE i \in 1..26 : Uppers[i] = c] ELSE c]
Lower(c) == LowerMap[c]
LowerStr(s) == [i \in 1..Len(s) |-> Lower(s[i])]

DigitMap == [c \in DigitSet |-> (CHOOSE i \in 1..10 : Digits[i] = c) - 1]
DigitVal(c) == DigitMap[c]

RECURSIVE IntOf(_)
IntOf(ds) ==
    IF ds = <<>> THEN 0
    ELSE IntOf(SubSeq(ds, 1, Len(ds) - 1)) * 10 + DigitVal(ds[Len(ds)])

RECURSIVE Str(_)
Str(n) ==
    IF n < 10 THEN <<Digits[n + 1]>>
    ELSE Str(n \div 10) \o <<Digits[(n % 10) + 1]>>

\* re.match anchors at the start only
StartsWith(s, p) == Len(s) >= Len(p) /\ SubSeq(s, 1, Len(p)) = p
StartsWithI(s, p) ==
    Len(s) >= Len(p) /\ LowerStr(SubSeq(s, 1, Len(p))) = LowerStr(p)

\* length of the longest run of digits / word characters starting at s[i]
DigitRun(s, i) ==
    CHOOSE k \in 0..(Len(s) + 1 - i) :
        /\ \A j \in i..(i + k - 1) : IsDigit(s[j])
        /\ (i + k > Len(s) \/ ~IsDigit(s[i + k]))
WordRun(s, i) ==
    CHOOSE k \in 0..(Len(s) + 1 - i) :
        /\ \A j \in i..(i + k - 1) : IsWord(s[j])
        /\ (i + k > Len(s) \/ ~IsWord(s[i + k]))
AllDigits(s, i, j) == j <= Len(s) /\ \A k \in i..j : IsDigit(s[k])

\* pathlib's Path.suffix
Suffix(name) ==
    LET dots == {i \in 1..Len(name) : name[i] = "."}
    IN  IF dots = {} THEN <<>>
        ELSE LET i == CHOOSE d \in dots : \A e \in dots : e <= d
             IN  IF i > 1 /\ i < Len(name) THEN SubSeq(name, i, Len(name))
                 ELSE <<>>

RECURSIVE Perms(_)
Perms(S) ==
    IF S = {} THEN {<<>>}
    ELSE UNION {{<<x>> \o p : p \in Perms(S \ {x})} : x \in S}

(***************************************************************************)
(* Literal names of the program.                                           *)
(***************************************************************************)
sQuizzes == <<"Q","u","i","z","z","e","s">>
sQuizzesDash == sQuizzes \o <<"-">>
sQuiz == <<"Q","u","i","z">>
sQ == <<"Q">>
sPdf == <<".","p","d","f">>
sQuizSpace == <<"Q","u","i","z"," ">>
squiz_ == <<"q","u","i","z","_">>
sWinter == <<"w","i","n","t","e","r">>
sSpring == <<"s","p","r","i","n","g">>
sFall == <<"f","a","l","l">>

WORKSPACE_DIR == <<>>
OUTPUT_DIR == WORKSPACE_DIR \o <<sQuizzes>>

(***************************************************************************)
(* parse_semester_folder                                                   *)
(***************************************************************************)
NoMatch == [ok |-> FALSE, season |-> <<>>, year |-> <<>>]

\* r"Quizzes-(\w+)-(\d{4})"
MatchPattern1(name) ==
    IF ~StartsWith(name, sQuizzesDash) THEN NoMatch
    ELSE LET k == WordRun(name, 9)
         IN  IF /\ k >= 1
                /\ Len(name) >= 9 + k
                /\ name[9 + k] = "-"
                /\ AllDigits(name, 10 + k, 13 + k)
             THEN [ok |-> TRUE,
                   season |-> SubSeq(name, 9, 8 + k),
                   year |-> SubSeq(name, 10 + k, 13 + k)]
             ELSE NoMatch

\* r"Quizzes-(\w+)(\d{4})": \w+ is greedy and backtracks
MatchPattern2(name) ==
    IF ~StartsWith(name, sQuizzesDash) THEN NoMatch
    ELSE LET run == WordRun(name, 9)
             ks == {k \in 1..run : AllDigits(name, 9 + k, 12 + k)}
         IN  IF ks = {} THEN NoMatch
             ELSE LET k == CHOOSE x \in ks : \A y \in ks : y <= x
                  IN  [ok |-> TRUE,
                       season |-> SubSeq(name, 9, 8 + k),
                       year |-> SubSeq(name, 9 + k, 12 + k)]

SEMESTER_PATTERNS(name) == <<MatchPattern1(name), MatchPattern2(name)>>

parse_semester_folder(folder_name) ==
    LET ms == SEMESTER_PATTERNS(folder_name)
        hit == {i \in 1..Len(ms) : ms[i].ok}
    IN  IF hit = {} THEN NoMatch
        ELSE LET m == ms[CHOOSE i \in hit : \A j \in hit : i <= j]
             IN  [ok |-> TRUE, season |-> LowerStr(m.season), year |-> m.year]

(***************************************************************************)
(* Quiz folder names: re.match(r"Quiz(\d+)", IGNORECASE) and then          *)
(* re.match(r"Q(\d+)$", IGNORECASE).  The result is <<matched, number>>.   *)
(***************************************************************************)
MatchQuizN(name) ==
    IF StartsWithI(name, sQuiz) /\ DigitRun(name, 5) >= 1
    THEN <<TRUE, IntOf(SubSeq(name, 5, 4 + DigitRun(name, 5)))>>
    ELSE <<FALSE, 0>>

MatchQN(name) ==
    IF /\ StartsWithI(name, sQ)
       /\ DigitRun(name, 2) >= 1
       /\ 1 + DigitRun(name, 2) = Len(name)
    THEN <<TRUE, IntOf(SubSeq(name, 2, Len(name)))>>
    ELSE <<FALSE, 0>>

QuizFolderNumber(name) ==
    IF MatchQuizN(name)[1] THEN MatchQuizN(name)
    ELSE MatchQN(name)

(***************************************************************************)
(* The filesystem: a function from paths to nodes.                         *)
(***************************************************************************)
DirNode == [kind |-> "dir", valid |-> TRUE, pages |-> <<>>]
FileNode(p, n) ==
    [kind |-> "file", valid |-> TRUE, pages |-> [i \in 1..n |-> <<p, i>>]]
CorruptNode == [kind |-> "file", valid |-> FALSE, pages |-> <<>>]

Exists(f, p) == p \in DOMAIN f
IsDir(f, p) == Exists(f, p) /\ f[p].kind = "dir"
Parent(p) == SubSeq(p, 1, Len(p) - 1)
Name(p) == p[Len(p)]
IterDir(f, d) == {p \in DOMAIN f : Len(p) = Len(d) + 1 /\ Parent(p) = d}

\* f with path p bound to node
Put(f, p, node) ==
    [q \in DOMAIN f \cup {p} |-> IF q = p THEN node ELSE f[q]]

(***************************************************************************)
(* find_quiz_folders                                                       *)
(***************************************************************************)
\* sorted(..., key=lambda x: x[0]) with key comparison QuizKeyLess; the sort
\* is stable, so equal keys keep the order of the input
QuizKeyLess_unsorted(a, b) == FALSE
QuizKeyLess(a, b) == a[1] < b[1]

SortQuizFolders(s) ==
    LET n == Len(s)
        rank(i) == 1 + Cardinality({j \in 1..n :
                        \/ QuizKeyLess(s[j], s[i])
                        \/ (~QuizKeyLess(s[i], s[j]) /\ j < i)})
    IN  [k \in 1..n |-> s[CHOOSE i \in 1..n : rank(i) = k]]

\* the (quiz_number, folder_path) pairs the loop appends
QuizFolderEntries(f, semester_path) ==
    {<<QuizFolderNumber(Name(item))[2], item>> :
        item \in {i \in IterDir(f, semester_path) :
                     IsDir(f, i) /\ QuizFolderNumber(Name(i))[1]}}

\* the lists find_quiz_folders can return: iterdir() yields the entries in
\* an arbitrary order, the loop appends the matching ones in that order,
\* and the list is sorted
find_quiz_folders(f, semester_path) ==
    {SortQuizFolders(o) : o \in Perms(QuizFolderEntries(f, semester_path))}

(***************************************************************************)
(* find_quiz_parts                                                         *)
(***************************************************************************)
PartName(quiz_num, sep, part_num) ==
    sQuiz \o Str(quiz_num) \o <<sep>> \o Str(part_num) \o sPdf

Patterns_commaFirst(quiz_num, part_num) ==
    << PartName(quiz_num, ",", part_num), PartName(quiz_num, ".", part_num) >>
Patterns(quiz_num, part_num) ==
    << PartName(quiz_num, ".", part_num), PartName(quiz_num, ",", part_num) >>

\* file.suffix.lower() == ".pdf" and
\* re.match(rf"Quiz{quiz_num}[.,]{part_num}\.pdf", file.name, re.IGNORECASE)
LooseMatch(name, quiz_num, part_num) ==
    /\ LowerStr(Suffix(name)) = sPdf
    /\ \/ StartsWithI(name, PartName(quiz_num, ".", part_num))
       \/ StartsWithI(name, PartName(quiz_num, ",", part_num))

\* what one part_num can append to parts: <<>> or a single path.  The
\* fallback scan takes the first matching entry iterdir() yields, which can
\* be any of the matching entries.
FindPart(f, quiz_folder, quiz_num, part_num) ==
    LET pats == Patterns(quiz_num, part_num)
        hit == {i \in 1..Len(pats) : Exists(f, quiz_folder \o <<pats[i]>>)}
        scan == {file \in IterDir(f, quiz_folder) :
                    LooseMatch(Name(file), quiz_num, part_num)}
    IN  IF hit # {}
        THEN {<<quiz_folder \o <<pats[CHOOSE i \in hit : \A j \in hit : i <= j]>>>>}
        ELSE IF scan # {}
        THEN {<<file>> : file \in scan}
        ELSE {<<>>}

\* the lists find_quiz_parts can return
find_quiz_parts(f, quiz_folder, quiz_num) ==
    {a \o b \o c : a \in FindPart(f, quiz_folder, quiz_num, 1),
                   b \in FindPart(f, quiz_folder, quiz_num, 2),
                   c \in FindPart(f, quiz_folder, quiz_num, 3)}

(***************************************************************************)
(* The semester scan of main(), lines 139-154.                             *)
(***************************************************************************)
\* comparison of two strings of digits, as Python compares str
StrLess(a, b) ==
    \E i \in 1..Len(b) :
        /\ \A j \in 1..(i - 1) : j <= Len(a) /\ a[j] = b[j]
        /\ (i > Len(a) \/ (i - 1 < Len(a) /\ DigitVal(a[i]) < DigitVal(b[i])))

season_order(season) ==
    IF season = sWinter THEN 0
    ELSE IF season = sSpring THEN 1
    ELSE IF season = sFall THEN 2
    ELSE 3

\* key=lambda x: (x[1], season_order.get(x[0], 3))
SemKeyLess(a, b) ==
    \/ StrLess(a.year, b.year)
    \/ (a.year = b.year /\ season_order(a.season) < season_order(b.season))

SortSemesters(s) ==
    LET n == Len(s)
        rank(i) == 1 + Cardinality({j \in 1..n :
                        \/ SemKeyLess(s[j], s[i])
                        \/ (~SemKeyLess(s[i], s[j]) /\ j < i)})
    IN  [k \in 1..n |-> s[CHOOSE i \in 1..n : rank(i) = k]]

\* the (season, year, item) entries the loop of lines 141-146 appends
SemesterEntries(f) ==
    {LET parsed == parse_semester_folder(Name(item))
     IN  [season |-> parsed.season, year |-> parsed.year, path |-> item] :
        item \in {i \in IterDir(f, WORKSPACE_DIR) :
                     IsDir(f, i) /\ parse_semester_folder(Name(i)).ok}}

\* the sorted lists main() can obtain: iterdir() yields the entries in an
\* arbitrary order and the sort is stable
ScanResults(f) == {SortSemesters(o) : o \in Perms(SemesterEntries(f))}

(***************************************************************************)
(* Output path of main(), lines 180-182.                                   *)
(***************************************************************************)
OutputFolder_inSemester(quiz_num, semester_path) ==
    semester_path \o <<sQuizSpace \o Str(quiz_num)>>
OutputFolder(quiz_num, semester_path) ==
    OUTPUT_DIR \o <<sQuizSpace \o Str(quiz_num)>>

OutputFilename(quiz_num, year, season) ==
    squiz_ \o Str(quiz_num) \o <<"_">> \o year \o <<"_">> \o season \o sPdf

OutputPath(quiz_num, sem) ==
    OutputFolder(quiz_num, sem.path)
        \o <<OutputFilename(quiz_num, sem.year, sem.season)>>

\* if len(parts) != 3: skip
PartsComplete_atLeastTwo(p) == Len(p) >= 2
PartsComplete(p) == Len(p) = 3

(***************************************************************************)
(* merge_pdfs: the filesystem operations it performs.                      *)
(***************************************************************************)
Prefixes(d) == {SubSeq(d, 1, k) : k \in 1..Len(d)}

\* Path.mkdir(parents=True, exist_ok=True)
MkdirFails(f, d) == \E a \in Prefixes(d) : Exists(f, a) /\ ~IsDir(f, a)
Mkdir(f, d) ==
    [q \in DOMAIN f \cup Prefixes(d) |-> IF q \in DOMAIN f THEN f[q] ELSE DirNode]

\* PdfMerger.append raises unless the path is a readable PDF file
AppendFails(f, p) == ~Exists(f, p) \/ f[p].kind # "file" \/ ~f[p].valid

\* PdfMerger.write opens the destination for writing
WriteFails(f, p) == IsDir(f, p) \/ ~IsDir(f, Parent(p))
WritePdf(f, p, pages) ==
    Put(f, p, [kind |-> "file", valid |-> TRUE, pages |-> pages])

\* except Exception as e
Caught_onlyPdfErrors(e) == e = "PdfReadError"
Caught(e) == e \in {"PdfReadError", "IsADirectoryError", "FileExistsError",
                    "NotADirectoryError", "FileNotFoundError"}

(***************************************************************************)
(* State.                                                                  *)
(*   fs               the filesystem below WORKSPACE_DIR                   *)
(*   listing          the iterdir() results fixed so far, by directory     *)
(*   pc               position in main() / merge_pdfs()                    *)
(*   semester_folders, si      main()'s sorted list and the outer loop     *)
(*   quiz_folders, qi          the current semester's list, the inner loop *)
(*   parts, output_path        the locals of the inner loop body           *)
(*   ai               where merge_pdfs' append loop stopped                *)
(*   mergers          the PdfMerger objects created by this process        *)
(*   exc              the exception in flight                              *)
(*   total_merged, total_errors    the counters                            *)
(*   out              the lines printed                                    *)
(*   visited          history: the quiz folders processed, in order        *)
(*   run, snap        number of the current run; the state the previous    *)
(*                    run ended in                                         *)
(***************************************************************************)
VARIABLES fs, listing, pc, semester_folders, si, quiz_folders, qi,
          parts, output_path, ai, mergers, exc, total_merged, total_errors,
          out, visited, run, snap

vars == <<fs, listing, pc, semester_folders, si, quiz_folders, qi,
          parts, output_path, ai, mergers, exc, total_merged, total_errors,
          out, visited, run, snap>>

(***************************************************************************)
(* Input layouts.                                                          *)
(***************************************************************************)
sNotes == <<"N","o","t","e","s">>
sScript == <<"s","o","r","t","_","q","u","i","z","z","e","s",".","p","y">>
s2023 == <<"2","0","2","3">>
s2024 == <<"2","0","2","4">>

TopNames ==
    { sQuizzesDash \o <<"F","a","l","l","-">> \o s2024,
      sQuizzesDash \o <<"F","a","l","l">> \o s2024,
      sQuizzesDash \o <<"W","i","n","t","e","r","-">> \o s2024,
      sQuizzesDash \o <<"S","p","r","i","n","g","-">> \o s2024,
      sQuizzesDash \o <<"S","u","m","m","e","r","-">> \o s2024,
      sQuizzesDash \o <<"F","a","l","l","-">> \o s2023 }

QuizDirNames ==
    { sQuiz \o <<"1">>, <<"Q","1">>, sQuiz \o <<"1","0">>, <<"q","2">> }

Templates == {"dot", "mixed", "missing", "corrupt", "empty"}

OutPre == {"absent", "populated"}

NumberOf(qname) == QuizFolderNumber(qname)[2]

\* pages of part p
PageCount(p) == IF p = 2 THEN 2 ELSE 1

\* the files of one quiz folder qp, as a set of <<path, node>>
TemplateFiles(t, qp, n) ==
    LET dot(p) == qp \o <<PartName(n, ".", p)>>
        comma(p) == qp \o <<PartName(n, ",", p)>>
        lower(p) == qp \o <<LowerStr(sQuiz) \o Str(n) \o <<".">> \o Str(p)
                            \o <<".","P","D","F">>>>
    IN  CASE t = "dot" ->
               {<<dot(p), FileNode(dot(p), PageCount(p))>> : p \in 1..3}
          [] t = "mixed" ->
               { <<comma(1), FileNode(comma(1), 1)>>,
                 <<lower(2), FileNode(lower(2), 2)>>,
                 <<dot(3), FileNode(dot(3), 1)>>,
                 <<comma(3), FileNode(comma(3), 1)>> }
          [] t = "missing" ->
               {<<dot(p), FileNode(dot(p), PageCount(p))>> : p \in {1, 3}}
          [] t = "corrupt" ->
               { <<dot(1), FileNode(dot(1), 1)>>,
                 <<dot(2), CorruptNode>>,
                 <<dot(3), FileNode(dot(3), 1)>> }
          [] OTHER -> {}

\* what the output directory holds before the run: nothing ("absent"), or
\* ("populated") an older merged file for quiz 1 of fall 2024, a directory
\* in the place of the merged file for quiz 1 of winter 2024, and a regular
\* file in the place of the folder for quiz 10
OldTarget == OutputPath(1, [season |-> sFall, year |-> s2024, path |-> <<>>])
DirTarget == OutputPath(1, [season |-> sWinter, year |-> s2024, path |-> <<>>])
FileTarget == OutputFolder(10, <<>>)

OutPreEntries(pre) ==
    IF pre = "populated"
    THEN { <<OUTPUT_DIR, DirNode>>,
           <<Parent(OldTarget), DirNode>>,
           <<OldTarget, FileNode(OldTarget, 1)>>,
           <<DirTarget, DirNode>>,
           <<FileTarget, FileNode(FileTarget, 1)>> }
    ELSE {}

AsFunction(entries) ==
    [p \in {e[1] : e \in entries} |-> (CHOOSE e \in entries : e[1] = p)[2]]

\* tops: semester folder names; qs: quiz folder names, the same in every
\* semester; tm: the template of each quiz folder name
TemplateMaps(qs) ==
    {[q \in qs |-> "dot"]}
    \cup {[q \in qs |-> IF q = special THEN t ELSE "dot"] :
            special \in qs, t \in Templates}

Layout(tops, qs, tm, pre) ==
    AsFunction(
        { <<(<<sNotes>>), DirNode>>, <<(<<sScript>>), FileNode(<<sScript>>, 1)>> }
        \cup {<<(<<t>>), DirNode>> : t \in tops}
        \cup {<<(<<t, sNotes>>), DirNode>> : t \in tops}
        \cup {<<(<<t, q>>), DirNode>> : t \in tops, q \in qs}
        \cup UNION {TemplateFiles(tm[q], <<t, q>>, NumberOf(q)) :
                        t \in tops, q \in qs}
        \cup OutPreEntries(pre))

NoMerger == [closed |-> TRUE, pages |-> <<>>]

Init ==
    /\ \E tops \in SUBSET TopNames, qs \in SUBSET QuizDirNames, pre \in OutPre :
          /\ Cardinality(tops) <= MaxTop
          /\ Cardinality(qs) <= MaxQuizFolders
          /\ \E tm \in TemplateMaps(qs) :
                fs = Layout(tops, qs, tm, pre)
    /\ listing = [root |-> <<>>, sem |-> <<>>, quiz |-> <<>>]
    /\ pc = "start"
    /\ semester_folders = <<>>
    /\ si = 1
    /\ quiz_folders = <<>>
    /\ qi = 1
    /\ parts = <<>>
    /\ output_path = <<>>
    /\ ai = 1
    /\ mergers = <<>>
    /\ exc = ""
    /\ total_merged = 0
    /\ total_errors = 0
    /\ out = <<>>
    /\ visited = <<>>
    /\ run = 1
    /\ snap = <<>>

(***************************************************************************)
(* main()                                                                  *)
(***************************************************************************)
Line(l, a, b) == [line |-> l, a |-> a, b |-> b]

Sem == semester_folders[si]
QuizNum == quiz_folders[qi][1]
QuizFolder == quiz_folders[qi][2]

Visit(result) ==
    [si |-> si, qi |-> qi, num |-> QuizNum, result |-> result,
     output |-> output_path]

Memo(m, k, v) == [q \in DOMAIN m \cup {k} |-> IF q = k THEN v ELSE m[q]]

\* lines 139-163: the scan, the early return, the sort, the counters
ScanSemesters ==
    /\ pc = "start"
    /\ \E sf \in (IF listing.root # <<>> THEN {listing.root[1]}
                  ELSE ScanResults(fs)) :
          /\ semester_folders' = sf
          /\ listing' = [listing EXCEPT !.root = <<sf>>]
          /\ IF sf = <<>>
             THEN /\ out' = Append(out, Line("no semester folders", 0, 0))
                  /\ pc' = "done"
             ELSE /\ out' = out
                  /\ pc' = "semester"
    /\ si' = 1
    /\ total_merged' = 0
    /\ total_errors' = 0
    /\ UNCHANGED <<fs, quiz_folders, qi, parts, output_path, ai, mergers,
                   exc, visited, run, snap>>

\* lines 165-168: the next semester and its quiz folders
EnterSemester ==
    /\ pc = "semester"
    /\ si <= Len(semester_folders)
    /\ \E qf \in (IF Sem.path \in DOMAIN listing.sem
                  THEN {listing.sem[Sem.path]}
                  ELSE find_quiz_folders(fs, Sem.path)) :
          /\ quiz_folders' = qf
          /\ listing' = [listing EXCEPT !.sem = Memo(@, Sem.path, qf)]
    /\ qi' = 1
    /\ pc' = "quiz"
    /\ UNCHANGED <<fs, semester_folders, si, parts, output_path, ai,
                   mergers, exc, total_merged, total_errors, out, visited,
                   run, snap>>

\* line 170: the inner loop is exhausted
LeaveSemester ==
    /\ pc = "quiz"
    /\ qi > Len(quiz_folders)
    /\ si' = si + 1
    /\ pc' = "semester"
    /\ UNCHANGED <<fs, listing, semester_folders, quiz_folders, qi, parts,
                   output_path, ai, mergers, exc, total_merged, total_errors,
                   out, visited, run, snap>>

\* line 172
LocateParts ==
    /\ pc = "quiz"
    /\ qi <= Len(quiz_folders)
    /\ \E ps \in (IF QuizFolder \in DOMAIN listing.quiz
                  THEN {listing.quiz[QuizFolder]}
                  ELSE find_quiz_parts(fs, QuizFolder, QuizNum)) :
          /\ parts' = ps
          /\ listing' = [listing EXCEPT !.quiz = Memo(@, QuizFolder, ps)]
    /\ output_path' = <<>>
    /\ pc' = "located"
    /\ UNCHANGED <<fs, semester_folders, si, quiz_folders, qi, ai, mergers,
                   exc, total_merged, total_errors, out, visited, run, snap>>

\* lines 174-177 without line 176
SkipQuiz_notCounted ==
    /\ pc = "located"
    /\ ~PartsComplete(parts)
    /\ out' = Append(out, Line("skipping", QuizNum, Len(parts)))
    /\ visited' = Append(visited, Visit("skipped"))
    /\ qi' = qi + 1
    /\ pc' = "quiz"
    /\ UNCHANGED <<fs, listing, semester_folders, si, quiz_folders, parts,
                   output_path, ai, mergers, exc, total_merged, total_errors,
                   run, snap>>

\* lines 174-177
SkipQuiz ==
    /\ pc = "located"
    /\ ~PartsComplete(parts)
    /\ out' = Append(out, Line("skipping", QuizNum, Len(parts)))
    /\ total_errors' = total_errors + 1
    /\ visited' = Append(visited, Visit("skipped"))
    /\ qi' = qi + 1
    /\ pc' = "quiz"
    /\ UNCHANGED <<fs, listing, semester_folders, si, quiz_folders, parts,
                   output_path, ai, mergers, exc, total_merged, run, snap>>

\* the append loop of lines 116-117: the pages appended and the index of
\* the first path that raises (Len(ps) + 1 when none does)
RECURSIVE AppendAll(_, _, _)
AppendAll(f, ps, i) ==
    IF i > Len(ps) \/ AppendFails(f, ps[i]) THEN [pages |-> <<>>, ai |-> i]
    ELSE LET rest == AppendAll(f, ps, i + 1)
         IN  [pages |-> f[ps[i]].pages \o rest.pages, ai |-> rest.ai]

AppendError(f, p) ==
    IF IsDir(f, p) THEN "IsADirectoryError"
    ELSE IF Exists(f, p) THEN "PdfReadError"
    ELSE "FileNotFoundError"

\* lines 180-185 and 110-117: the output path, the call, PdfMerger() and
\* the append loop
CallMerge ==
    /\ pc = "located"
    /\ PartsComplete(parts)
    /\ output_path' = OutputPath(QuizNum, Sem)
    /\ IF parts = <<>>
       THEN /\ exc' = "empty"
            /\ pc' = "merge_raised"
            /\ mergers' = mergers
            /\ ai' = 1
       ELSE LET r == AppendAll(fs, parts, 1)
            IN  /\ mergers' = Append(mergers,
                                     [closed |-> FALSE, pages |-> r.pages])
                /\ ai' = r.ai
                /\ IF r.ai > Len(parts)
                   THEN exc' = "" /\ pc' = "merge_mkdir"
                   ELSE /\ exc' = AppendError(fs, parts[r.ai])
                        /\ pc' = "merge_raised"
    /\ UNCHANGED <<fs, listing, semester_folders, si, quiz_folders, qi,
                   parts, total_merged, total_errors, out, visited, run, snap>>

\* line 120
MergeMkdir ==
    /\ pc = "merge_mkdir"
    /\ IF MkdirFails(fs, Parent(output_path))
       THEN /\ exc' = (IF Exists(fs, Parent(output_path)) /\ IsDir(fs, OUTPUT_DIR)
                       THEN "FileExistsError" ELSE "NotADirectoryError")
            /\ pc' = "merge_raised"
            /\ UNCHANGED <<fs, listing>>
       ELSE /\ fs' = Mkdir(fs, Parent(output_path))
            /\ listing' = IF IterDir(fs', WORKSPACE_DIR) = IterDir(fs, WORKSPACE_DIR)
                          THEN listing
                          ELSE [listing EXCEPT !.root = <<>>]
            /\ pc' = "merge_write"
            /\ exc' = exc
    /\ UNCHANGED <<semester_folders, si, quiz_folders, qi, parts,
                   output_path, ai, mergers, total_merged, total_errors, out,
                   visited, run, snap>>

\* line 122
MergeWrite ==
    /\ pc = "merge_write"
    /\ IF WriteFails(fs, output_path)
       THEN /\ exc' = "IsADirectoryError"
            /\ pc' = "merge_raised"
            /\ fs' = fs
       ELSE /\ fs' = WritePdf(fs, output_path, mergers[Len(mergers)].pages)
            /\ pc' = "merge_close"
            /\ exc' = exc
    /\ UNCHANGED <<listing, semester_folders, si, quiz_folders, qi, parts,
                   output_path, ai, mergers, total_merged, total_errors, out,
                   visited, run, snap>>

\* lines 123-124 and 185-187: close, return True, count the merge
MergeClose ==
    /\ pc = "merge_close"
    /\ mergers' = [mergers EXCEPT ![Len(mergers)] = NoMerger]
    /\ out' = Append(out, Line("merged", QuizNum, 0))
    /\ total_merged' = total_merged + 1
    /\ visited' = Append(visited, Visit("merged"))
    /\ qi' = qi + 1
    /\ pc' = "quiz"
    /\ UNCHANGED <<fs, listing, semester_folders, si, quiz_folders, parts,
                   output_path, ai, exc, total_errors, run, snap>>

\* lines 110-111, 126-128 and 188-190: return False, count the error; an
\* exception the handler does not catch ends the process
MergeExcept ==
    /\ pc = "merge_raised"
    /\ IF exc = "empty" \/ Caught(exc)
       THEN /\ out' = Append(out, Line("failed", QuizNum, 0))
            /\ total_errors' = total_errors + 1
            /\ visited' = Append(visited, Visit("failed"))
            /\ qi' = qi + 1
            /\ pc' = "quiz"
       ELSE /\ pc' = "crashed"
            /\ UNCHANGED <<out, total_errors, visited, qi>>
    /\ exc' = ""
    /\ UNCHANGED <<fs, listing, semester_folders, si, quiz_folders, parts,
                   output_path, ai, mergers, total_merged, run, snap>>

\* lines 192-205
Summary ==
    /\ pc = "semester"
    /\ si > Len(semester_folders)
    /\ out' = Append(out, Line("summary", total_merged, total_errors))
    /\ pc' = "done"
    /\ UNCHANGED <<fs, listing, semester_folders, si, quiz_folders, qi,
                   parts, output_path, ai, mergers, exc, total_merged,
                   total_errors, visited, run, snap>>

Next ==
    \/ ScanSemesters
    \/ EnterSemester
    \/ LeaveSemester
    \/ LocateParts
    \/ SkipQuiz
    \/ CallMerge
    \/ MergeMkdir
    \/ MergeWrite
    \/ MergeClose
    \/ MergeExcept
    \/ Summary

Spec == Init /\ [][Next]_vars

FairSpec == Spec /\ WF_vars(Next)

(***************************************************************************)
(* Running main() again: a new process on the filesystem the run before    *)
(* left behind.                                                            *)
(***************************************************************************)
Merged(v) == {i \in 1..Len(v) : v[i].result = "merged"}

Rerun ==
    /\ pc = "done"
    /\ run < MaxRuns
    /\ snap' = <<[fs |-> fs,
                  merged |-> total_merged,
                  errors |-> total_errors,
                  semesters |-> {semester_folders[i].path :
                                    i \in 1..Len(semester_folders)},
                  written |-> {visited[i].output : i \in Merged(visited)}]>>
    /\ run' = run + 1
    /\ pc' = "start"
    /\ semester_folders' = <<>>
    /\ si' = 1
    /\ quiz_folders' = <<>>
    /\ qi' = 1
    /\ parts' = <<>>
    /\ output_path' = <<>>
    /\ ai' = 1
    /\ mergers' = <<>>
    /\ exc' = ""
    /\ total_merged' = 0
    /\ total_errors' = 0
    /\ out' = <<>>
    /\ visited' = <<>>
    /\ UNCHANGED <<fs, listing>>

Next2 == Next \/ Rerun

Spec2 == Init /\ [][Next2]_vars

(***************************************************************************)
(* find_quiz_parts on its own: one quiz folder holding any MaxFiles of the *)
(* candidate names, and one call.                                          *)
(***************************************************************************)
PQuizNums == {6, 12}

PCandidates(n) ==
    UNION { { PartName(n, ".", p),
              PartName(n, ",", p),
              LowerStr(PartName(n, ".", p)),
              sQuiz \o Str(n) \o <<",">> \o Str(p) \o <<".","P","D","F">>,
              PartName(n, ".", p) \o <<".","b","a","k">> \o sPdf } : p \in 1..3 }
    \cup { sQuiz \o Str(n) \o <<".","1",".","t","x","t">>,
           PartName(n, ".", 1) \o <<".","t","x","t">>,
           sQuiz \o Str(n) \o <<"1",".","1">> \o sPdf,
           sNotes \o sPdf }

PFolder(n) == <<sQuiz \o Str(n)>>

PInit ==
    /\ \E n \in PQuizNums :
          \E F \in SUBSET PCandidates(n) :
             /\ Cardinality(F) <= MaxFiles
             /\ fs = AsFunction({<<PFolder(n), DirNode>>}
                       \cup {<<PFolder(n) \o <<x>>, FileNode(PFolder(n) \o <<x>>, 1)>> :
                                x \in F})
             /\ quiz_folders = <<(<<n, PFolder(n)>>)>>
    /\ listing = [root |-> <<>>, sem |-> <<>>, quiz |-> <<>>]
    /\ pc = "pf_call"
    /\ semester_folders = <<>>
    /\ si = 1
    /\ qi = 1
    /\ parts = <<>>
    /\ output_path = <<>>
    /\ ai = 1
    /\ mergers = <<>>
    /\ exc = ""
    /\ total_merged = 0
    /\ total_errors = 0
    /\ out = <<>>
    /\ visited = <<>>
    /\ run = 1
    /\ snap = <<>>

PFind ==
    /\ pc = "pf_call"
    /\ parts' \in find_quiz_parts(fs, QuizFolder, QuizNum)
    /\ pc' = "pf_done"
    /\ UNCHANGED <<fs, listing, semester_folders, si, quiz_folders, qi,
                   output_path, ai, mergers, exc, total_merged, total_errors,
                   out, visited, run, snap>>

PNext == PFind

PartsSpec == PInit /\ [][PNext]_vars

(***************************************************************************)
(* Claims about find_quiz_parts (PartsSpec).                               *)
(***************************************************************************)
PFiles == {Name(f) : f \in IterDir(fs, QuizFolder)}
PPositions == 1..3

\* name is QuizN.p.pdf or QuizN,p.pdf, letters in any case
IsVariant(name, n, p) ==
    \/ LowerStr(name) = LowerStr(PartName(n, ".", p))
    \/ LowerStr(name) = LowerStr(PartName(n, ",", p))

\* name begins with such a variant and ends in .pdf, letters in any case
IsLoose(name, n, p) ==
    /\ \E k \in 1..Len(name) : IsVariant(SubSeq(name, 1, k), n, p)
    /\ Len(name) > 4
    /\ LowerStr(SubSeq(name, Len(name) - 3, Len(name))) = sPdf

\* a file of that name may stand for position p: by a case variant of the
\* exact names only, or (loose) by the prefix match as well
Stands(loose, name, p) ==
    IF loose THEN IsLoose(name, QuizNum, p) ELSE IsVariant(name, QuizNum, p)

\* parts lists exactly the positions some file may stand for, in increasing
\* order, one file each; the exact dot name wins over the exact comma name,
\* which wins over the rest
PartsAre(loose) ==
    LET Ok(nm, p) == Stands(loose, nm, p)
        found == {p \in PPositions : \E nm \in PFiles : Ok(nm, p)}
        nth(k) == CHOOSE p \in found :
                     Cardinality({q \in found : q < p}) = k - 1
    IN  /\ Len(parts) = Cardinality(found)
        /\ Len(parts) <= 3
        /\ \A i, j \in 1..Len(parts) : i # j => parts[i] # parts[j]
        /\ \A k \in 1..Len(parts) :
              LET p == nth(k)
                  nm == Name(parts[k])
              IN  /\ Parent(parts[k]) = QuizFolder
                  /\ nm \in PFiles
                  /\ Ok(nm, p)
                  /\ PartName(QuizNum, ".", p) \in PFiles
                        => nm = PartName(QuizNum, ".", p)
                  /\ (PartName(QuizNum, ".", p) \notin PFiles
                        /\ PartName(QuizNum, ",", p) \in PFiles)
                        => nm = PartName(QuizNum, ",", p)

\* C6 as stated: the result holds, in increasing position order, exactly one
\* file for each position that has a file named QuizN.p.pdf, QuizN,p.pdf or
\* a case-insensitive variant of these, and nothing for any other position;
\* dot before comma before the case-insensitive scan; at most 3 entries, no
\* file twice.
C6_Original == pc = "pf_done" => PartsAre(FALSE)

\* C6 amended: the same, where the scan also accepts any file whose name
\* begins with a case-insensitive variant of QuizN.p.pdf or QuizN,p.pdf and
\* ends in a .pdf extension in any case (Quiz6.1.pdf.bak.pdf stands for
\* position 1 when no exact name exists).
C6_Amended == pc = "pf_done" => PartsAre(TRUE)

\* C6 witness: three parts were returned, one of them through the scan by a
\* name that is no case variant of the exact names
C6_Witness ==
    /\ pc = "pf_done"
    /\ Len(parts) = 3
    /\ \E k \in 1..3 : ~IsVariant(Name(parts[k]), QuizNum, k)
    /\ \E k \in 1..3 : Name(parts[k]) = PartName(QuizNum, ",", k)

(***************************************************************************)
(* Claims about main() (Spec, FairSpec, Spec2).                            *)
(***************************************************************************)
Printed(l) == \E i \in 1..Len(out) : out[i].line = l
AtLoopHead == pc \in {"semester", "quiz", "done"}

\* the semester and the quiz folder of an entry of visited
VisitSem(v) == semester_folders[v.si]
VisitFolder(v) == listing.sem[VisitSem(v).path][v.qi][2]
VisitParts(v) == listing.quiz[VisitFolder(v)]

RECURSIVE ConcatPages(_, _)
ConcatPages(f, ps) ==
    IF ps = <<>> THEN <<>> ELSE f[Head(ps)].pages \o ConcatPages(f, Tail(ps))

\* <output dir>/Quiz N/quiz_N_<year>_<season>.pdf
ClaimedPath(n, year, season) ==
    << sQuizzes,
       <<"Q","u","i","z"," ">> \o Str(n),
       <<"q","u","i","z","_">> \o Str(n) \o <<"_">> \o year \o <<"_">>
            \o season \o <<".","p","d","f">> >>

\* p lies strictly inside directory d
Under(p, d) == Len(p) > Len(d) /\ SubSeq(p, 1, Len(d)) = d
Recognized == SemesterEntries(fs)
RecognizedPaths == {s.path : s \in Recognized}
\* p is one of the semester folders sems, or lies inside one
InsideSemester(p, sems) == \E s \in sems : p = s \/ Under(p, s)
InsideOutput(p) == p = OUTPUT_DIR \/ Under(p, OUTPUT_DIR)

\* C1: a quiz for which find_quiz_parts returned fewer than 3 parts is
\* skipped: the next step returns to the loop head without calling
\* merge_pdfs (no merger is created), leaves the filesystem as it is, adds
\* exactly 1 to total_errors and leaves total_merged alone.
C1_SkipIncomplete ==
    [][ (pc = "located" /\ Len(parts) < 3) =>
          /\ pc' = "quiz"
          /\ qi' = qi + 1
          /\ mergers' = mergers
          /\ fs' = fs
          /\ total_errors' = total_errors + 1
          /\ total_merged' = total_merged ]_vars

\* C1 witness: a quiz with 2 of 3 parts was skipped and counted, after an
\* earlier quiz had been merged
C1_Witness ==
    /\ pc = "quiz"
    /\ Len(visited) >= 2
    /\ visited[Len(visited)].result = "skipped"
    /\ out[Len(out)] = Line("skipping", visited[Len(visited)].num, 2)
    /\ total_merged >= 1
    /\ total_errors >= 1

\* C2 as stated: for every layout, zero semester folders included, the run
\* ends having reached the Summary step.
C2_Original == pc = "done" => Printed("summary")

C2_Swept ==
    \A s \in Recognized : \A q \in QuizFolderEntries(fs, s.path) :
        \E i \in 1..Len(visited) :
            VisitSem(visited[i]).path = s.path /\ VisitFolder(visited[i]) = q[2]

\* an upper bound on the number of steps main() still has to take: 10 per
\* quiz folder left, 2 more per semester left (enter and leave), 1 for the
\* Summary
Inputs == Cardinality({p \in DOMAIN fs : ~InsideOutput(p)})
SemesterCost == 10 * Inputs + 2
Remaining ==
    LET semLeft == Len(semester_folders) + 1 - si
        quizLeft == Len(quiz_folders) + 1 - qi
        atQuiz == 10 * quizLeft + 1 + (semLeft - 1) * SemesterCost + 1
    IN  CASE pc = "start" -> (Inputs + 1) * SemesterCost + 3
          [] pc = "semester" -> semLeft * SemesterCost + 1
          [] pc = "quiz" -> atQuiz
          [] pc = "located" -> atQuiz - 1
          [] pc = "merge_mkdir" -> atQuiz - 2
          [] pc = "merge_write" -> atQuiz - 6
          [] pc = "merge_close" -> atQuiz - 7
          [] pc = "merge_raised" -> atQuiz - 8
          [] OTHER -> 0

\* the enabling conditions of the steps of main(), position by position
CanStep ==
    \/ pc = "start"
          /\ (IF listing.root # <<>> THEN {listing.root[1]}
              ELSE ScanResults(fs)) # {}
    \/ pc = "semester" /\ si <= Len(semester_folders)
          /\ (IF Sem.path \in DOMAIN listing.sem THEN {listing.sem[Sem.path]}
              ELSE find_quiz_folders(fs, Sem.path)) # {}
    \/ pc = "semester" /\ si > Len(semester_folders)
    \/ pc = "quiz" /\ qi <= Len(quiz_folders)
          /\ (IF QuizFolder \in DOMAIN listing.quiz
              THEN {listing.quiz[QuizFolder]}
              ELSE find_quiz_parts(fs, QuizFolder, QuizNum)) # {}
    \/ pc = "quiz" /\ qi > Len(quiz_folders)
    \/ pc \in {"located", "merge_mkdir", "merge_write", "merge_close",
               "merge_raised"}

\* C2 amended: the run never dies of an exception and always ends (every
\* state but the final one has a next step, and every step lowers the bound
\* Remaining, so under the fairness of FairSpec the final state is reached);
\* when at least one semester folder is recognized it ends after processing
\* every quiz folder of every recognized semester folder, with the Summary
\* and its two counts printed; when none is recognized it ends after
\* printing "No semester folders found!", without a Summary.
C2_Amended ==
    /\ [](pc # "crashed")
    /\ [](pc = "done" \/ CanStep)
    /\ [](Remaining >= 0)
    /\ [][Remaining' < Remaining]_vars
    /\ [](pc = "done" =>
            IF Recognized = {}
            THEN out = <<Line("no semester folders", 0, 0)>>
            ELSE /\ C2_Swept
                 /\ out[Len(out)] = Line("summary", total_merged, total_errors))

\* C2 witness: the Summary was reached after a merge had failed and a later
\* quiz had been processed
C2_Witness ==
    /\ pc = "done"
    /\ Printed("summary")
    /\ \E i, j \in 1..Len(visited) : i < j /\ visited[i].result = "failed"

\* C3: at the end of the run, for every quiz that was merged successfully,
\* the file <output dir>/Quiz N/quiz_N_<year>_<season>.pdf exists and its
\* pages are the pages of part 1, then part 2, then part 3.
C3_Claim ==
    pc = "done" =>
        \A i \in Merged(visited) :
            LET v == visited[i]
                path == ClaimedPath(v.num, VisitSem(v).year, VisitSem(v).season)
            IN  /\ Exists(fs, path)
                /\ fs[path].kind = "file"
                /\ fs[path].pages = ConcatPages(fs, VisitParts(v))

\* C4: when a second run has ended, it has recognized the same semester
\* folders (never the output directory), written the same output paths,
\* counted the same, and left the filesystem as the first run left it.
C4_Claim ==
    /\ \A i \in 1..Len(semester_folders) : semester_folders[i].path # OUTPUT_DIR
    /\ (run = 2 /\ pc = "done") =>
          /\ {semester_folders[i].path : i \in 1..Len(semester_folders)}
                = snap[1].semesters
          /\ {visited[i].output : i \in Merged(visited)} = snap[1].written
          /\ total_merged = snap[1].merged
          /\ total_errors = snap[1].errors
          /\ fs = snap[1].fs

\* C5: no step changes or removes anything inside a recognized semester
\* folder; whatever a step creates or changes lies in the output directory;
\* and the output path main() computes is never inside a semester folder.
C5_OnlyCopies ==
    /\ [][ fs' # fs =>
           LET sems == RecognizedPaths
           IN  /\ \A p \in DOMAIN fs :
                     InsideSemester(p, sems)
                        => (p \in DOMAIN fs' /\ fs'[p] = fs[p])
               /\ \A p \in DOMAIN fs' :
                     (p \notin DOMAIN fs \/ fs'[p] # fs[p])
                        => InsideOutput(p) ]_vars
    /\ [](output_path # <<>> => ~InsideSemester(output_path, RecognizedPaths))

\* C5 witness: a merged file has just been written
C5_Witness ==
    /\ pc = "merge_close"
    /\ Exists(fs, output_path)
    /\ fs[output_path].pages = mergers[Len(mergers)].pages
    /\ Len(fs[output_path].pages) = 4

\* winter < spring < fall < anything else
ClaimedPriority(season) ==
    CASE season = <<"w","i","n","t","e","r">> -> 1
      [] season = <<"s","p","r","i","n","g">> -> 2
      [] season = <<"f","a","l","l">> -> 3
      [] OTHER -> 4

\* C7: the semesters are processed by year ascending, then by season
\* priority winter < spring < fall < unrecognized; the quiz folders of a
\* semester by ascending quiz number; the quizzes are visited in exactly
\* that order; and a directory matching neither Quiz<N> nor Q<N> is never
\* processed.
C7_Order ==
    /\ \A i, j \in 1..Len(semester_folders) : i < j =>
          LET a == semester_folders[i]
              b == semester_folders[j]
          IN  \/ IntOf(a.year) < IntOf(b.year)
              \/ /\ IntOf(a.year) = IntOf(b.year)
                 /\ ClaimedPriority(a.season) <= ClaimedPriority(b.season)
    /\ \A i, j \in 1..Len(quiz_folders) : i < j =>
          quiz_folders[i][1] <= quiz_folders[j][1]
    /\ \A i \in 1..Len(quiz_folders) : Name(quiz_folders[i][2]) # sNotes
    /\ \A i, j \in 1..Len(visited) : i < j =>
          \/ visited[i].si < visited[j].si
          \/ (visited[i].si = visited[j].si /\ visited[i].qi < visited[j].qi)
    /\ \A i \in 1..Len(visited) :
          /\ visited[i].si <= si
          /\ visited[i].si = si =>
                /\ visited[i].qi < qi
                /\ visited[i].num = quiz_folders[visited[i].qi][1]

\* C7 witness: quiz 2 (folder q2) was processed right before quiz 10 (folder
\* Quiz10) of the same semester, and a fall semester after a winter one
C7_Witness ==
    /\ \E i \in 1..Len(visited) :
          /\ i < Len(visited)
          /\ visited[i].num = 2 /\ visited[i + 1].num = 10
          /\ visited[i].si = visited[i + 1].si
    /\ Len(semester_folders) = 2
    /\ semester_folders[1].season = sWinter
    /\ semester_folders[2].season = sFall

\* C8: whenever main() is at a loop head or has ended, every merge object
\* created so far has been closed.
C8_Claim == AtLoopHead => \A k \in 1..Len(mergers) : mergers[k].closed

\* C9: two successful merges of one run never write the same output path,
\* and at the end the number of merged files equals total_merged.
C9_Claim ==
    /\ \A i, j \in Merged(visited) :
          i # j => visited[i].output # visited[j].output
    /\ pc = "done" =>
          Cardinality({visited[i].output : i \in Merged(visited)}) = total_merged

RECURSIVE SumQuizFolders(_)
SumQuizFolders(k) ==
    IF k = 0 THEN 0
    ELSE SumQuizFolders(k - 1)
            + Cardinality(QuizFolderEntries(fs, semester_folders[k].path))

\* C10: the counters are never negative and never decrease; their sum is
\* the number of quiz folders processed so far; a processed quiz folder adds
\* exactly 1 to exactly one of them, total_merged iff it had exactly 3 parts
\* and its merge succeeded; at the Summary the sum is the number of quiz
\* folders found in all recognized semester folders.
C10_Counters ==
    /\ [](/\ total_merged >= 0
          /\ total_errors >= 0
          /\ total_merged + total_errors = Len(visited)
          /\ total_merged = Cardinality(Merged(visited))
          /\ \A i \in 1..Len(visited) :
                /\ visited[i].result = "skipped"
                      <=> Len(VisitParts(visited[i])) # 3
                /\ visited[i].result = "merged"
                      => Exists(fs, visited[i].output)
          /\ Printed("summary") =>
                /\ total_merged + total_errors
                      = SumQuizFolders(Len(semester_folders))
                /\ out[Len(out)] = Line("summary", total_merged, total_errors))
    /\ [][ /\ total_merged' >= total_merged
           /\ total_errors' >= total_errors
           /\ Len(visited') = Len(visited) + 1 =>
                \/ /\ total_merged' = total_merged + 1
                   /\ total_errors' = total_errors
                   /\ pc = "merge_close"
                \/ /\ total_merged' = total_merged
                   /\ total_errors' = total_errors + 1
                   /\ pc \in {"located", "merge_raised"} ]_vars

\* C10 witness: the Summary was printed after at least one merge, one skip
\* and one failed merge
C10_Witness ==
    /\ Printed("summary")
    /\ total_merged >= 1
    /\ \E i \in 1..Len(visited) : visited[i].result = "skipped"
    /\ \E i \in 1..Len(visited) : visited[i].result = "failed"

====
